---- MODULE Spec2Model ----
(***************************************************************************)
(* Model of lib/cli_consolidatedcanonical.py: the consolidation of         *)
(* canonical newspaper issues with langident/OCRQA enrichments.            *)
(*                                                                         *)
(* JSON objects (Python dicts) are functions from key strings to values;   *)
(* a key that is absent is absent from the DOMAIN.  JSON scalars are       *)
(* string tokens, JSON null / Python None is the token None.               *)
(***************************************************************************)
EXTENDS Integers, Sequences, FiniteSets, TLC

(***************************************************************************)
(* Bounds of the model.                                                    *)
(***************************************************************************)
MaxItems == 2
MaxIssues == 2
MaxEnrich == 2

(***************************************************************************)
(* Python values and dict operations.                                      *)
(***************************************************************************)
None == "None"
Absent == "<absent>"
EmptyDict == <<>>

\* Python truthiness of a string-or-None value: `not v` holds for None and "".
Truthy(v) == v \notin {None, ""}

\* dict.get(k)  /  dict.get(k, default)
Get(d, k) == IF k \in DOMAIN d THEN d[k] ELSE None
GetOr(d, k, default) == IF k \in DOMAIN d THEN d[k] ELSE default

\* del d[k]  and  d[k] = v
Del(d, k) == [j \in DOMAIN d \ {k} |-> d[j]]
Put(d, k, v) == [j \in DOMAIN d \cup {k} |-> IF j = k THEN v ELSE d[j]]

\* str.strip() on the strings of the model: whitespace-only becomes empty.
Strip(s) == IF s \in {"", " "} THEN "" ELSE s

\* value is None or (isinstance(value, str) and value.strip() == "")
NoneOrBlank(v) == v = None \/ Strip(v) = ""

\* One pass of a pruning loop: remove the keys of `fields` whose value is
\* None or blank (the order of the loop does not matter, keys are distinct).
Prune(d, fields) ==
  [j \in {k \in DOMAIN d : ~(k \in fields /\ NoneOrBlank(d[k]))} |-> d[j]]

\* A dict built from optional entries: Absent leaves the key out.
Opt(k, v) == IF v = Absent THEN EmptyDict ELSE (k :> v)

(***************************************************************************)
(* ensure_iso8601_z.  Timestamps are strings; the three date formats the   *)
(* function knows are given by the renderings of the instants below.       *)
(***************************************************************************)
FormatZ == <<"2024-01-15T10:30:00Z", "2023-12-31T23:59:59Z">>
FormatSpace == <<"2024-01-15 10:30:00", "2023-12-31 23:59:59">>
FormatT == <<"2024-01-15T10:30:00", "2023-12-31T23:59:59">>
\* Matches the regular expression although it is no calendar date.
OutOfRangeZ == "2024-13-45T99:99:99Z"
Unparseable == "15/01/2024"

\* re.match(r"^\d{4}-\d{2}-\d{2}T\d{2}:\d{2}:\d{2}Z$", ts)
re_match_iso_z(ts) == ts = OutOfRangeZ \/ \E n \in DOMAIN FormatZ : FormatZ[n] = ts

\* datetime.strptime(ts, fmt): the parsed instant, or 0 when it raises.
strptime(ts, fmt) ==
  IF \E n \in DOMAIN fmt : fmt[n] = ts
  THEN CHOOSE n \in DOMAIN fmt : fmt[n] = ts
  ELSE 0

\* dt.strftime("%Y-%m-%dT%H:%M:%SZ")
strftime_z(n) == FormatZ[n]

ensure_iso8601_z(ts) ==
  IF ~Truthy(ts) THEN ts
  ELSE IF re_match_iso_z(ts) THEN ts
  ELSE IF strptime(ts, FormatSpace) # 0 THEN strftime_z(strptime(ts, FormatSpace))
  ELSE IF strptime(ts, FormatT) # 0 THEN strftime_z(strptime(ts, FormatT))
  ELSE ts

(***************************************************************************)
(* consolidate_content_item.  The result is the exit status of the call    *)
(* (0: it returned, 1: sys.exit(1)), the error it stopped on and the       *)
(* metadata dict as the call left it.                                      *)
(***************************************************************************)
optional_string_fields == {"t", "iiif_link", "var_t", "archival_note"}

ConsolidatedKeys ==
  {"consolidated_lg", "consolidated_ocrqa", "consolidated_char_len",
   "consolidated_langident_run_id"}

\* A rename that looks at the legacy key l before lg.
rename_lg_legacy_first(m) ==
  IF "l" \in DOMAIN m THEN Put(Del(m, "l"), "lg_original", m["l"])
  ELSE IF "lg" \in DOMAIN m THEN Put(Del(m, "lg"), "lg_original", m["lg"])
  ELSE m

\* Lines 307-314: lg -> lg_original, else the legacy l -> lg_original.
rename_lg(m) ==
  IF "lg" \in DOMAIN m THEN Put(Del(m, "lg"), "lg_original", m["lg"])
  ELSE IF "l" \in DOMAIN m THEN Put(Del(m, "l"), "lg_original", m["l"])
  ELSE m

\* add_consolidated with the character length taken from the wrong field.
add_consolidated_wrong_len(m, enrichment, run_id) ==
  Put(Put(Put(Put(m, "consolidated_lg", enrichment.lg),
                  "consolidated_ocrqa", enrichment.ocrqa),
              "consolidated_char_len", enrichment.ocrqa),
      "consolidated_langident_run_id", run_id)

\* Lines 330-336: the four consolidated fields from the enrichment record.
add_consolidated(m, enrichment, run_id) ==
  Put(Put(Put(Put(m, "consolidated_lg", enrichment.lg),
                  "consolidated_ocrqa", enrichment.ocrqa),
              "consolidated_char_len", enrichment.len),
      "consolidated_langident_run_id", run_id)

\* A strict policy that lets a missing enrichment pass.
strict_missing_passes(policy, ci_id, enrichments) == FALSE

\* The strict matching policy of the specification (section 4.2, step 5):
\* an identifier absent from the index fails the run.  The processor of
\* lib/cli_consolidatedcanonical.py is the flexible variant and has no such
\* branch: with the flexible policy this is never true.
strict_missing(policy, ci_id, enrichments) ==
  policy = "strict" /\ ci_id \notin DOMAIN enrichments

Returned(m) == [exit |-> 0, error |-> None, m |-> m]
Exited(err, m) == [exit |-> 1, error |-> err, m |-> m]

consolidate_content_item(ci_metadata, enrichments, run_id, policy) ==
  LET ci_id == Get(ci_metadata, "id")
      pruned == Prune(ci_metadata, optional_string_fields)
      renamed == rename_lg(pruned)
      ci_type == Get(renamed, "tp")
  IN  IF ~Truthy(ci_id) THEN Exited("MissingRequiredField", ci_metadata)
      ELSE IF ci_type = "image" THEN Returned(renamed)
      ELSE IF strict_missing(policy, ci_id, enrichments)
           THEN Exited("MissingEnrichment", renamed)
      ELSE IF ci_id \notin DOMAIN enrichments THEN Returned(renamed)
      ELSE Returned(add_consolidated(renamed, enrichments[ci_id], run_id))

(***************************************************************************)
(* process_issue.  The result is the exit status of the call, the error it *)
(* stopped on and issue_data as the call left it.                          *)
(***************************************************************************)
optional_issue_fields ==
  {"s", "n", "media_title_variant", "iiif_manifest_uri", "rc", "rp"}

\* ci.get("m", {})
metadata_of(ci) == GetOr(ci, "m", EmptyDict)

\* A scan that prefers an article anywhere in the list to an earlier page.
scan_types_article_anywhere(content_items, k) ==
  LET types == {Get(GetOr(content_items[j], "m", EmptyDict), "tp") :
                  j \in k..Len(content_items)}
  IN  IF "article" \in types THEN "article"
      ELSE IF "page" \in types THEN "page"
      ELSE "none"

\* Lines 417-426: the scan stops at the first content item whose type is
\* "article" or "page" and reports which of the two it met ("none" when the
\* scan ends without meeting either).
RECURSIVE scan_types(_, _)
scan_types(content_items, k) ==
  IF k > Len(content_items) THEN "none"
  ELSE LET ci_type == Get(metadata_of(content_items[k]), "tp")
       IN  IF ci_type = "article" THEN "article"
           ELSE IF ci_type = "page" THEN "page"
           ELSE scan_types(content_items, k + 1)

\* Lines 428-450: olr from the outcome of the scan.
olr_of_scan(found) ==
  IF found = "article" THEN TRUE
  ELSE IF found = "page" THEN FALSE
  ELSE TRUE

\* An inference that overwrites the olr of the input.
infer_olr_overwrites(issue_data) ==
  Put(issue_data, "olr",
      olr_of_scan(scan_types(GetOr(issue_data, "i", <<>>), 1)))

\* Lines 404-456: olr is inferred only when the key is not in issue_data.
infer_olr(issue_data) ==
  IF "olr" \notin DOMAIN issue_data
  THEN Put(issue_data, "olr",
           olr_of_scan(scan_types(GetOr(issue_data, "i", <<>>), 1)))
  ELSE issue_data

\* Lines 465-475: the loop over the content items, which consolidates the
\* metadata of an item in place when the metadata dict is not empty and
\* stops where consolidate_content_item exits.
RECURSIVE consolidate_items(_, _, _, _, _)
consolidate_items(content_items, k, enrichments, run_id, policy) ==
  IF k > Len(content_items)
  THEN [exit |-> 0, error |-> None, items |-> content_items]
  ELSE LET ci == content_items[k]
           ci_metadata == metadata_of(ci)
       IN  IF DOMAIN ci_metadata = {}
           THEN consolidate_items(content_items, k + 1, enrichments, run_id, policy)
           ELSE LET r == consolidate_content_item(ci_metadata, enrichments,
                                                  run_id, policy)
                    updated == [content_items EXCEPT ![k] = Put(ci, "m", r.m)]
                IN  IF r.exit # 0
                    THEN [exit |-> r.exit, error |-> r.error, items |-> updated]
                    ELSE consolidate_items(updated, k + 1, enrichments, run_id,
                                           policy)

\* The two fields taken in the opposite order.
original_ts_of_cdt_first(issue_data) ==
  IF Truthy(Get(issue_data, "cdt")) THEN issue_data["cdt"]
  ELSE Get(issue_data, "ts")

\* Line 389: issue_data.get("ts") or issue_data.get("cdt")
original_ts_of(issue_data) ==
  IF Truthy(Get(issue_data, "ts")) THEN issue_data["ts"]
  ELSE Get(issue_data, "cdt")

\* The bookkeeping fields without the removal of cdt.
set_bookkeeping_keeps_cdt(issue_data, original_ts_iso, timestamp) ==
  Put(Put(Put(issue_data, "consolidated", TRUE),
              "consolidated_ts_original", original_ts_iso),
      "ts", timestamp)

\* Lines 397-402: the bookkeeping fields.
set_bookkeeping(issue_data, original_ts_iso, timestamp) ==
  Del(Put(Put(Put(issue_data, "consolidated", TRUE),
                  "consolidated_ts_original", original_ts_iso),
              "ts", timestamp),
      "cdt")

process_issue(issue_data, enrichments, timestamp, run_id, policy) ==
  LET pruned == Prune(issue_data, optional_issue_fields)
      original_ts == original_ts_of(pruned)
      stamped == set_bookkeeping(pruned, ensure_iso8601_z(original_ts), timestamp)
      with_olr == infer_olr(stamped)
      done == consolidate_items(GetOr(with_olr, "i", <<>>), 1, enrichments,
                                run_id, policy)
      final == IF "i" \in DOMAIN with_olr
               THEN Put(with_olr, "i", done.items) ELSE with_olr
  IN  IF ~Truthy(original_ts)
      THEN [exit |-> 1, error |-> "MissingRequiredField", issue |-> pruned]
      ELSE [exit |-> done.exit, error |-> done.error, issue |-> final]

(***************************************************************************)
(* load_enrichments: the record stored for one parsed enrichment line and  *)
(* the index after a sequence of well-formed lines.                        *)
(***************************************************************************)
\* Lines 249-256.
enrichment_record(data) ==
  [lg |-> Get(data, "lg"), ocrqa |-> Get(data, "ocrqa"), len |-> Get(data, "len"),
   lg_decision |-> Get(data, "lg_decision"),
   systems |-> GetOr(data, "systems", EmptyDict),
   alphabetical_ratio |-> Get(data, "alphabetical_ratio")]

\* A store that keeps the record an identifier already has.
store_enrichment_keeps_first(enrichments, data) ==
  IF data["id"] \in DOMAIN enrichments THEN enrichments
  ELSE Put(enrichments, data["id"], enrichment_record(data))

\* enrichments[ci_id] = {...}
store_enrichment(enrichments, data) ==
  Put(enrichments, data["id"], enrichment_record(data))

(***************************************************************************)
(* The inputs of the model.                                                *)
(***************************************************************************)
\* Parsed enrichment lines: two records of ci-1, one of ci-2 without lg.
EnrichA == [id |-> "ci-1", lg |-> "fr", ocrqa |-> "0.92", len |-> "1200"]
EnrichB == [id |-> "ci-1", lg |-> "de", ocrqa |-> "0.5"]
EnrichC == [id |-> "ci-2", ocrqa |-> "0.71", len |-> "80"]
EnrichNoId == [lg |-> "fr", ocrqa |-> "0.92"]
EnrichEmptyId == [id |-> "", lg |-> "fr", ocrqa |-> "0.92"]
WellFormedEnrichments == {EnrichA, EnrichB, EnrichC}

RECURSIVE load_all(_, _)
load_all(enrichments, datas) ==
  IF datas = <<>> THEN enrichments
  ELSE load_all(store_enrichment(enrichments, Head(datas)), Tail(datas))

SeqsUpTo(S, n) == UNION {[1..k -> S] : k \in 0..n}

\* The indexes load_enrichments can return and run accepts (not empty).
Indexes ==
  {load_all(EmptyDict, datas) : datas \in SeqsUpTo(WellFormedEnrichments, MaxEnrich)}
    \ {EmptyDict}

RunIds == {"langident-v2", "langident-v3"}
Policies == {"flexible", "strict"}
Clock == {"2025-06-01T12:00:00Z"}

\* Content item metadata for consolidate_content_item.
ItemIds == {Absent, None, "", "ci-1", "ci-2", "ci-3"}
ItemTypes == {Absent, "article", "page", "image", "ad"}
Metas ==
  {Opt("id", i) @@ Opt("tp", t) @@ Opt("lg", g) @@ Opt("l", l) @@ Opt("t", h) :
     i \in ItemIds, t \in ItemTypes, g \in {Absent, "en", None},
     l \in {Absent, "de"}, h \in {Absent, "", " ", "Headline"}}

\* Issues for process_issue.
IssueItems ==
  {EmptyDict} \cup
  {[m |-> Opt("id", i) @@ Opt("tp", t)] :
     i \in {Absent, "ci-1", "ci-3"}, t \in {Absent, "article", "page", "image"}}
TsValues == {Absent, None, "", FormatZ[1], FormatSpace[1], Unparseable}
CdtValues == {Absent, "", FormatT[2]}
OlrParts == {EmptyDict, [olr |-> TRUE], [olr |-> FALSE]}
ItemsParts == {EmptyDict} \cup {[i |-> s] : s \in SeqsUpTo(IssueItems, MaxItems)}
Issues ==
  {[id |-> "iss-1"] @@ Opt("ts", a) @@ Opt("cdt", b) @@ o @@ s :
     a \in TsValues, b \in CdtValues, o \in OlrParts, s \in ItemsParts}

(***************************************************************************)
(* State.                                                                  *)
(***************************************************************************)
VARIABLES
  pc,                \* where the program is
  matching_policy,   \* the matching policy the processor was built with
  validate,          \* self.validate
  langident_run_id,  \* self.langident_run_id
  timestamp,         \* self.timestamp
  enrichments,       \* the enrichment index
  ci_metadata,       \* argument of consolidate_content_item
  ci_result,         \* its outcome
  issue_data,        \* argument of process_issue
  issue_result,      \* its outcome
  enrichment_input,  \* the lines of the enrichment file (load_enrichments alone)
  loaded,            \* number of enrichment lines read
  canonical_lines,   \* the canonical lines read so far
  schema_verdict,    \* what the schema validator raised for the last issue
  output_f,          \* the lines written to the output
  exit_code,         \* exit status of the process (-1 while it runs)
  failure            \* the error the run stopped on

vars ==
  <<pc, matching_policy, validate, langident_run_id, timestamp, enrichments,
    ci_metadata, ci_result, issue_data, issue_result, enrichment_input, loaded,
    canonical_lines, schema_verdict, output_f, exit_code, failure>>

\* The variables of run that a single call does not use.
run_vars ==
  <<enrichment_input, loaded, canonical_lines, schema_verdict, output_f,
    exit_code, failure>>
RunIdle ==
  /\ enrichment_input = <<>>
  /\ loaded = 0
  /\ canonical_lines = <<>>
  /\ schema_verdict = "not_run"
  /\ output_f = <<>>
  /\ exit_code = -1
  /\ failure = None

NoItemResult == [exit |-> 0, error |-> None, m |-> EmptyDict]
NoIssueResult == [exit |-> 0, error |-> None, issue |-> EmptyDict]

(***************************************************************************)
(* SpecItem: consolidate_content_item applied to one metadata dict.        *)
(***************************************************************************)
InitItem ==
  /\ pc = "item_call"
  /\ matching_policy \in Policies
  /\ validate = FALSE
  /\ langident_run_id \in RunIds
  /\ timestamp \in Clock
  /\ enrichments \in Indexes
  /\ ci_metadata \in Metas
  /\ ci_result = NoItemResult
  /\ issue_data = EmptyDict
  /\ issue_result = NoIssueResult
  /\ RunIdle

ConsolidateItem ==
  /\ pc = "item_call"
  /\ ci_result' = consolidate_content_item(ci_metadata, enrichments,
                                           langident_run_id, matching_policy)
  /\ pc' = "item_done"
  /\ UNCHANGED <<matching_policy, validate, langident_run_id, timestamp,
                 enrichments, ci_metadata, issue_data, issue_result, run_vars>>

SpecItem == InitItem /\ [][ConsolidateItem]_vars

(***************************************************************************)
(* SpecIssue: process_issue applied to one issue.                          *)
(***************************************************************************)
InitIssue ==
  /\ pc = "issue_call"
  /\ matching_policy \in Policies
  /\ validate = FALSE
  /\ langident_run_id = "langident-v2"
  /\ timestamp \in Clock
  /\ enrichments = load_all(EmptyDict, <<EnrichA>>)
  /\ ci_metadata = EmptyDict
  /\ ci_result = NoItemResult
  /\ issue_data \in Issues
  /\ issue_result = NoIssueResult
  /\ RunIdle

ProcessIssue ==
  /\ pc = "issue_call"
  /\ issue_result' = process_issue(issue_data, enrichments, timestamp,
                                   langident_run_id, matching_policy)
  /\ pc' = "issue_done"
  /\ UNCHANGED <<matching_policy, validate, langident_run_id, timestamp,
                 enrichments, ci_metadata, ci_result, issue_data, run_vars>>

SpecIssue == InitIssue /\ [][ProcessIssue]_vars

(***************************************************************************)
(* Spec: the whole run, from main to the exit of the process.              *)
(***************************************************************************)
\* A line of an input file: blank, not JSON, JSON that is no object, or a
\* JSON object (data).
BlankLine == [kind |-> "blank", data |-> EmptyDict]
MalformedLine == [kind |-> "malformed", data |-> EmptyDict]
NotObjectLine == [kind |-> "not_object", data |-> EmptyDict]
JsonLine(d) == [kind |-> "json", data |-> d]

EnrichLines ==
  {BlankLine, MalformedLine, NotObjectLine}
    \cup {JsonLine(d) : d \in WellFormedEnrichments \cup {EnrichNoId, EnrichEmptyId}}

\* The issue of the end-to-end scenario, an issue with a matched and an
\* unmatched article, an issue of pages and images with cdt and olr, an issue
\* without timestamp and an issue whose item has no id.
IssueE2E ==
  [id |-> "iss-1", ts |-> FormatSpace[1],
   i |-> <<[m |-> [id |-> "ci-1", tp |-> "article", lg |-> "en"]]>>]
IssueTwoItems ==
  [id |-> "iss-2", ts |-> FormatZ[1],
   i |-> <<[m |-> [id |-> "ci-1", tp |-> "article"]],
           [m |-> [id |-> "ci-3", tp |-> "article"]]>>]
IssuePages ==
  [id |-> "iss-3", cdt |-> FormatT[2], olr |-> FALSE, rc |-> "",
   i |-> <<[m |-> [id |-> "ci-2", tp |-> "page"]],
           [m |-> [id |-> "img-1", tp |-> "image"]]>>]
IssueNoTimestamp == [id |-> "iss-4", i |-> <<>>]
IssueItemNoId ==
  [id |-> "iss-5", ts |-> FormatZ[1], i |-> <<[m |-> [tp |-> "article"]]>>]
RunIssues ==
  {IssueE2E, IssueTwoItems, IssuePages, IssueNoTimestamp, IssueItemNoId}

CanonLines ==
  {BlankLine, MalformedLine, NotObjectLine} \cup {JsonLine(d) : d \in RunIssues}

\* What schema_validator.validate raises for an issue: nothing, a
\* ValidationError or a SchemaError.
ValidatorOutcomes == {None, "ValidationError", "SchemaError"}

\* validate_issue with a SchemaError taken for a valid issue.
validate_issue_ignores_schema_error(raised) == raised # "ValidationError"

\* Lines 498-546: True when validate raised nothing, False on both errors.
validate_issue(raised) == raised = None

\* The emptiness test left out.
no_enrichment_data_never(index) == FALSE

\* Line 562: if not enrichments
no_enrichment_data(index) == DOMAIN index = {}

\* A write that puts the new line in front of the lines written before.
write_line_in_front(out, consolidated_issue) == <<consolidated_issue>> \o out

\* Lines 603-605: output_f.write(json.dumps(consolidated_issue) + "\n")
write_line(out, consolidated_issue) == Append(out, consolidated_issue)

\* Lines 237-260: one line of the enrichment file.  exit 0: go on with the
\* next line; "Unhandled" is the exception caught at line 262.
load_line(index, line) ==
  IF line.kind = "blank" THEN [exit |-> 0, error |-> None, index |-> index]
  ELSE IF line.kind = "malformed"
       THEN [exit |-> 1, error |-> "MalformedInput", index |-> index]
  ELSE IF line.kind = "not_object"
       THEN [exit |-> 1, error |-> "Unhandled", index |-> index]
  ELSE IF ~Truthy(Get(line.data, "id"))
       THEN [exit |-> 1, error |-> "MissingRequiredField", index |-> index]
  ELSE [exit |-> 0, error |-> None, index |-> store_enrichment(index, line.data)]

Init ==
  /\ pc = "main"
  /\ matching_policy \in Policies
  /\ validate \in BOOLEAN
  /\ langident_run_id = "langident-v2"
  /\ timestamp = None
  /\ enrichments = EmptyDict
  /\ ci_metadata = EmptyDict
  /\ ci_result = NoItemResult
  /\ issue_data = EmptyDict
  /\ issue_result = NoIssueResult
  /\ RunIdle

Exit(code, err) ==
  /\ pc' = "exited"
  /\ exit_code' = code
  /\ failure' = err

\* main and __init__ (lines 192-213, 652-667): an exception of the
\* constructor reaches the handler of lines 673-675.
Construct ==
  /\ pc = "main"
  /\ \E raised \in BOOLEAN :
       IF raised
       THEN Exit(2, "Unhandled") /\ UNCHANGED timestamp
       ELSE /\ timestamp' \in Clock
            /\ pc' = "load"
            /\ UNCHANGED <<exit_code, failure>>
  /\ UNCHANGED <<matching_policy, validate, langident_run_id, enrichments,
                 ci_metadata, ci_result, issue_data, issue_result, loaded,
                 canonical_lines, schema_verdict, output_f,
                 enrichment_input>>

\* load_enrichments, one iteration of the loop of line 236; read_raised is an
\* exception of the read itself, caught at line 262.
LoadLine ==
  /\ pc = "load"
  /\ loaded < MaxEnrich
  /\ \E line \in EnrichLines, read_raised \in BOOLEAN :
       LET r == load_line(enrichments, line)
       IN  IF read_raised
           THEN Exit(1, "Unhandled") /\ UNCHANGED <<enrichments, loaded>>
           ELSE /\ loaded' = loaded + 1
                /\ enrichments' = r.index
                /\ IF r.exit # 0 THEN Exit(r.exit, r.error)
                   ELSE UNCHANGED <<pc, exit_code, failure>>
  /\ UNCHANGED <<matching_policy, validate, langident_run_id, timestamp,
                 ci_metadata, ci_result, issue_data, issue_result,
                 canonical_lines, schema_verdict, output_f,
                 enrichment_input>>

\* The end of the enrichment file (lines 266-267) and lines 560-564 of run.
LoadEnd ==
  /\ pc = "load"
  /\ IF no_enrichment_data(enrichments)
     THEN Exit(1, "NoEnrichmentData")
     ELSE pc' = "process" /\ UNCHANGED <<exit_code, failure>>
  /\ UNCHANGED <<matching_policy, validate, langident_run_id, timestamp,
                 enrichments, ci_metadata, ci_result, issue_data, issue_result,
                 loaded, canonical_lines, schema_verdict, output_f,
                 enrichment_input>>

\* One iteration of the loop of line 582: parse, process_issue, validate,
\* write.  write_raised is an exception of output_f.write, caught at line 614
\* like the one process_issue raises on JSON that is no object.
ProcessLine ==
  /\ pc = "process"
  /\ Len(canonical_lines) < MaxIssues
  /\ \E line \in CanonLines, raised \in ValidatorOutcomes, write_raised \in BOOLEAN :
       LET r == process_issue(line.data, enrichments, timestamp,
                              langident_run_id, matching_policy)
           validated == line.kind = "json" /\ r.exit = 0 /\ validate
       IN  /\ canonical_lines' = Append(canonical_lines, line)
           /\ schema_verdict' = IF validated THEN raised ELSE "not_run"
           /\ IF line.kind = "json"
              THEN issue_data' = line.data /\ issue_result' = r
              ELSE UNCHANGED <<issue_data, issue_result>>
           /\ IF line.kind = "blank"
              THEN UNCHANGED <<pc, exit_code, failure, output_f>>
              ELSE IF line.kind = "malformed"
              THEN Exit(1, "MalformedInput") /\ UNCHANGED output_f
              ELSE IF line.kind = "not_object"
              THEN Exit(1, "Unhandled") /\ UNCHANGED output_f
              ELSE IF r.exit # 0
              THEN Exit(r.exit, r.error) /\ UNCHANGED output_f
              ELSE IF validate /\ ~validate_issue(raised)
              THEN Exit(1, "ValidationFailure") /\ UNCHANGED output_f
              ELSE IF write_raised
              THEN Exit(1, "Unhandled") /\ UNCHANGED output_f
              ELSE /\ output_f' = write_line(output_f, r.issue)
                   /\ UNCHANGED <<pc, exit_code, failure>>
  /\ UNCHANGED <<matching_policy, validate, langident_run_id, timestamp,
                 enrichments, ci_metadata, ci_result, loaded, enrichment_input>>

\* The end of the canonical file: line 612, then main returns.
Finish ==
  /\ pc = "process"
  /\ Exit(0, None)
  /\ UNCHANGED <<matching_policy, validate, langident_run_id, timestamp,
                 enrichments, ci_metadata, ci_result, issue_data, issue_result,
                 loaded, canonical_lines, schema_verdict, output_f,
                 enrichment_input>>

Next == Construct \/ LoadLine \/ LoadEnd \/ ProcessLine \/ Finish

Spec == Init /\ [][Next]_vars

(***************************************************************************)
(* SpecLoad: load_enrichments alone, on a given enrichment file.           *)
(***************************************************************************)
InitLoad ==
  /\ pc = "load_call"
  /\ matching_policy = "flexible"
  /\ validate = FALSE
  /\ langident_run_id = "langident-v2"
  /\ timestamp \in Clock
  /\ enrichments = EmptyDict
  /\ ci_metadata = EmptyDict
  /\ ci_result = NoItemResult
  /\ issue_data = EmptyDict
  /\ issue_result = NoIssueResult
  /\ enrichment_input \in SeqsUpTo(EnrichLines, MaxEnrich)
  /\ loaded = 0
  /\ canonical_lines = <<>>
  /\ schema_verdict = "not_run"
  /\ output_f = <<>>
  /\ exit_code = -1
  /\ failure = None

\* One iteration of the loop of line 236 on the next line of the file.
LoadNext ==
  /\ pc = "load_call"
  /\ loaded < Len(enrichment_input)
  /\ LET r == load_line(enrichments, enrichment_input[loaded + 1])
     IN  /\ loaded' = loaded + 1
         /\ enrichments' = r.index
         /\ IF r.exit # 0 THEN Exit(r.exit, r.error)
            ELSE UNCHANGED <<pc, exit_code, failure>>
  /\ UNCHANGED <<matching_policy, validate, langident_run_id, timestamp,
                 ci_metadata, ci_result, issue_data, issue_result,
                 enrichment_input, canonical_lines, schema_verdict, output_f>>

\* Lines 266-267: the end of the file, load_enrichments returns the index.
LoadReturn ==
  /\ pc = "load_call"
  /\ loaded = Len(enrichment_input)
  /\ pc' = "load_done"
  /\ UNCHANGED <<matching_policy, validate, langident_run_id, timestamp,
                 enrichments, ci_metadata, ci_result, issue_data, issue_result,
                 enrichment_input, loaded, canonical_lines, schema_verdict,
                 output_f, exit_code, failure>>

NextLoad == LoadNext \/ LoadReturn

SpecLoad == InitLoad /\ [][NextLoad]_vars

(***************************************************************************)
(* Properties of consolidate_content_item (SpecItem).                      *)
(***************************************************************************)
ItemMatched ==
  /\ Get(ci_metadata, "tp") # "image"
  /\ ci_metadata["id"] \in DOMAIN enrichments

ItemOutcomeFlexible ==
  LET out == ci_result.m
      enrichment == enrichments[ci_metadata["id"]]
  IN  /\ ci_result.exit = 0
      /\ ItemMatched =>
           /\ ConsolidatedKeys \subseteq DOMAIN out
           /\ out["consolidated_lg"] = enrichment.lg
           /\ out["consolidated_ocrqa"] = enrichment.ocrqa
           /\ out["consolidated_char_len"] = enrichment.len
           /\ out["consolidated_langident_run_id"] = langident_run_id
      /\ ~ItemMatched =>
           DOMAIN out \cap ConsolidatedKeys = DOMAIN ci_metadata \cap ConsolidatedKeys

InputItems == GetOr(issue_data, "i", <<>>)
InputTypes ==
  [k \in 1..Len(InputItems) |-> Get(GetOr(InputItems[k], "m", EmptyDict), "tp")]
\* The call got past the timestamp step (it set the bookkeeping fields).
PastTimestampStep == "consolidated" \in DOMAIN issue_result.issue
TimestampStepFailed ==
  /\ issue_result.exit = 1
  /\ issue_result.error = "MissingRequiredField"
  /\ ~PastTimestampStep

PageThenArticle ==
  /\ pc = "issue_done"
  /\ PastTimestampStep
  /\ "olr" \notin DOMAIN issue_data
  /\ InputTypes = <<"page", "article">>

\* C3 as stated: an issue without olr whose content items are [page, article]
\* gets olr = true.
C3_PageArticleInfersTrue == PageThenArticle => issue_result.issue["olr"] = TRUE

\* C3 amended: an issue without olr whose content items are [page, article]
\* gets olr = false, the scan stopping at the page.
C3_PageArticleInfersFalse == PageThenArticle => issue_result.issue["olr"] = FALSE

\* process_issue succeeded on an issue [page, article] without olr.
C3_Witness ==
  /\ PageThenArticle
  /\ issue_result.exit = 0
  /\ "olr" \in DOMAIN issue_result.issue

\* The positions of the content items of type article or page.
TypedPositions == {k \in 1..Len(InputItems) : InputTypes[k] \in {"article", "page"}}
FirstTyped == CHOOSE k \in TypedPositions : \A j \in TypedPositions : k <= j

\* C4: olr is inferred only when the issue has no olr field: true if the first
\* item of type article or page is an article, false if it is a page, true if
\* there is no such item; an olr field of the input is left unchanged.
C4_OlrInference ==
  (pc = "issue_done" /\ PastTimestampStep) =>
    /\ "olr" \in DOMAIN issue_result.issue
    /\ "olr" \in DOMAIN issue_data => issue_result.issue["olr"] = issue_data["olr"]
    /\ "olr" \notin DOMAIN issue_data =>
         issue_result.issue["olr"] =
           IF TypedPositions = {} THEN TRUE
           ELSE InputTypes[FirstTyped] = "article"

\* [page, page] without olr gave olr = false.
C4_Witness ==
  /\ pc = "issue_done"
  /\ PastTimestampStep
  /\ "olr" \notin DOMAIN issue_data
  /\ InputTypes = <<"page", "page">>
  /\ issue_result.issue["olr"] = FALSE

Bookkeeping(original_ts) ==
  LET out == issue_result.issue
  IN  /\ out["consolidated"] = TRUE
      /\ out["consolidated_ts_original"] = ensure_iso8601_z(original_ts)
      /\ out["ts"] = timestamp
      /\ "cdt" \notin DOMAIN out

\* C7 as stated: after process_issue succeeds, consolidated is true,
\* consolidated_ts_original is the normalized input ts when the ts field is
\* present and the normalized input cdt otherwise, ts is the processing
\* timestamp and there is no cdt.
C7_BookkeepingTsPresent ==
  (pc = "issue_done" /\ issue_result.exit = 0) =>
    Bookkeeping(IF "ts" \in DOMAIN issue_data THEN issue_data["ts"]
                ELSE Get(issue_data, "cdt"))

\* C7 amended: the original timestamp is the input ts when it is present and
\* not empty (neither null nor ""), and the input cdt otherwise.
C7_BookkeepingTsNonEmpty ==
  (pc = "issue_done" /\ issue_result.exit = 0) =>
    Bookkeeping(IF Truthy(Get(issue_data, "ts")) THEN issue_data["ts"]
                ELSE Get(issue_data, "cdt"))

\* An issue with cdt only succeeded: cdt is gone and its normalized value kept.
C7_Witness ==
  /\ pc = "issue_done"
  /\ issue_result.exit = 0
  /\ "ts" \notin DOMAIN issue_data
  /\ issue_data["cdt"] = FormatT[2]
  /\ issue_result.issue["consolidated_ts_original"] = FormatZ[2]
  /\ issue_result.issue["ts"] = timestamp
  /\ "cdt" \notin DOMAIN issue_result.issue

\* C8 as stated: ts is the original timestamp whenever the ts field exists,
\* cdt only when ts does not exist; the step fails with MissingRequiredField
\* when neither field exists and does not fail when one of them exists.
C8_TimestampByExistence ==
  (pc = "issue_done") =>
    LET has_ts == "ts" \in DOMAIN issue_data
        has_cdt == "cdt" \in DOMAIN issue_data
    IN  /\ (~has_ts /\ ~has_cdt) => TimestampStepFailed
        /\ (has_ts \/ has_cdt) => PastTimestampStep
        /\ PastTimestampStep =>
             issue_result.issue["consolidated_ts_original"] =
               ensure_iso8601_z(IF has_ts THEN issue_data["ts"]
                                ELSE issue_data["cdt"])

\* C8 amended: ts is the original timestamp whenever ts has a non-empty value
\* (neither null nor ""), cdt only when ts has none; the step fails with
\* MissingRequiredField when neither field has a non-empty value and does not
\* fail when one of them has.
C8_TimestampByValue ==
  (pc = "issue_done") =>
    LET has_ts == Truthy(Get(issue_data, "ts"))
        has_cdt == Truthy(Get(issue_data, "cdt"))
    IN  /\ (~has_ts /\ ~has_cdt) => TimestampStepFailed
        /\ (has_ts \/ has_cdt) => PastTimestampStep
        /\ PastTimestampStep =>
             issue_result.issue["consolidated_ts_original"] =
               ensure_iso8601_z(IF has_ts THEN issue_data["ts"]
                                ELSE issue_data["cdt"])

\* An issue with both fields took ts, not cdt.
C8_Witness ==
  /\ pc = "issue_done"
  /\ Get(issue_data, "ts") = FormatSpace[1]
  /\ Get(issue_data, "cdt") = FormatT[2]
  /\ PastTimestampStep
  /\ issue_result.issue["consolidated_ts_original"] = FormatZ[1]

(***************************************************************************)
(* Properties of the run (Spec).                                           *)
(***************************************************************************)
IsNonBlank(line) == line.kind # "blank"
NonBlankRead == SelectSeq(canonical_lines, IsNonBlank)
LastLine == canonical_lines[Len(canonical_lines)]
ExitedNonZero == pc = "exited" /\ exit_code \notin {-1, 0}
\* The last line read is not in the output: the output has one line for each
\* non-blank line before it.
LastLineNotWritten == Len(output_f) = Len(NonBlankRead) - 1

\* consolidate_content_item returns on this metadata whatever the policy, or
\* the item is not handed to it.
ItemPasses(m) ==
  \/ DOMAIN m = {}
  \/ /\ Truthy(Get(m, "id"))
     /\ Get(m, "tp") = "image" \/ m["id"] \in DOMAIN enrichments
\* A non-image item with an id that is absent from the index.
ItemUnmatched(m) ==
  /\ Truthy(Get(m, "id"))
  /\ Get(m, "tp") # "image"
  /\ m["id"] \notin DOMAIN enrichments
\* process_issue hands an unmatched item to consolidate_content_item: the
\* issue has a timestamp and every item before the unmatched one passes.
GivenUnmatchedItem(issue) ==
  LET items == GetOr(issue, "i", <<>>)
  IN  /\ Truthy(Get(issue, "ts")) \/ Truthy(Get(issue, "cdt"))
      /\ \E k \in 1..Len(items) :
           /\ ItemUnmatched(GetOr(items[k], "m", EmptyDict))
           /\ \A j \in 1..(k - 1) : ItemPasses(GetOr(items[j], "m", EmptyDict))

\* C1: under the strict policy, once consolidate_content_item is given a
\* non-image item whose id is not in the index, the run has exited non-zero
\* with MissingEnrichment and no line was written for the issue of that item.
C1_StrictAborts ==
  (/\ matching_policy = "strict"
   /\ canonical_lines # <<>>
   /\ LastLine.kind = "json"
   /\ GivenUnmatchedItem(LastLine.data))
    => /\ ExitedNonZero
       /\ failure = "MissingEnrichment"
       /\ LastLineNotWritten

\* The strict run wrote a first issue and aborted on the unmatched item of the
\* second.
C1_Witness ==
  /\ matching_policy = "strict"
  /\ Len(canonical_lines) = 2
  /\ LastLine.data = IssueTwoItems
  /\ "ci-1" \in DOMAIN enrichments
  /\ ExitedNonZero
  /\ failure = "MissingEnrichment"
  /\ Len(output_f) = 1

ConsolidatedForm(line) ==
  process_issue(line.data, enrichments, timestamp, langident_run_id,
                matching_policy).issue
IssueFailures ==
  {"MalformedInput", "MissingRequiredField", "MissingEnrichment",
   "ValidationFailure"}
OutputIsPrefixOfInput ==
  /\ Len(output_f) <= Len(NonBlankRead)
  /\ \A j \in 1..Len(output_f) : output_f[j] = ConsolidatedForm(NonBlankRead[j])
  /\ pc = "process" => Len(output_f) = Len(NonBlankRead)
  /\ (pc = "exited" /\ exit_code = 0) => Len(output_f) = Len(NonBlankRead)
  /\ (pc = "exited" /\ failure \in IssueFailures /\ canonical_lines # <<>>)
       => LastLineNotWritten
OutputOnlyGrows ==
  /\ Len(output_f) <= Len(output_f')
  /\ \A j \in 1..Len(output_f) : output_f'[j] = output_f[j]

\* C5: at every point of the run the output is the sequence of the
\* consolidated forms of a prefix of the non-blank canonical lines read, in
\* order; a run that aborts on the k-th issue holds the lines of issues
\* 1..k-1, a completed run one line per non-blank line; written lines are
\* never retracted.
C5_OutputInInputOrder == [](OutputIsPrefixOfInput) /\ [][OutputOnlyGrows]_vars

\* Two different issues were written, in the order they were read, after a
\* blank line.
C5_Witness ==
  /\ pc = "exited"
  /\ exit_code = 0
  /\ Len(output_f) = 2
  /\ output_f[1]["id"] = "iss-3"
  /\ output_f[2]["id"] = "iss-1"
  /\ canonical_lines[1] = JsonLine(IssuePages)

\* C6: the index is complete before the first issue is read and never changes
\* afterwards; a run whose enrichment stream yields no record exits with
\* NoEnrichmentData before any issue is read and before any line is written.
C6_IndexBuiltFirst ==
  /\ [](/\ (canonical_lines # <<>> \/ output_f # <<>> \/ pc = "process")
             => (pc \in {"process", "exited"} /\ DOMAIN enrichments # {})
        /\ (pc = "exited" /\ failure = "NoEnrichmentData")
             => /\ exit_code = 1
                /\ DOMAIN enrichments = {}
                /\ canonical_lines = <<>>
                /\ output_f = <<>>)
  /\ [][/\ pc # "load" => enrichments' = enrichments
        /\ (pc = "load" /\ pc' # "load" /\ DOMAIN enrichments = {})
             => (pc' = "exited" /\ exit_code' = 1)]_vars

\* An all-blank enrichment stream ended the run with NoEnrichmentData.
C6_Witness ==
  /\ pc = "exited"
  /\ failure = "NoEnrichmentData"
  /\ loaded = MaxEnrich
  /\ canonical_lines = <<>>
  /\ output_f = <<>>

\* C9: with validation enabled, an issue the validator rejects is never
\* written, the run exits non-zero and reads no further line; with validation
\* disabled the validator rejects nothing.
C9_ValidationFatal ==
  /\ [](/\ schema_verdict \in {"ValidationError", "SchemaError"}
             => /\ validate
                /\ ExitedNonZero
                /\ failure = "ValidationFailure"
                /\ LastLineNotWritten
        /\ ~validate => (schema_verdict = "not_run" /\ failure # "ValidationFailure"))
  /\ [][pc = "exited" => (canonical_lines' = canonical_lines /\ output_f' = output_f)]_vars

\* A first issue was written and the second rejected on a SchemaError.
C9_Witness ==
  /\ validate
  /\ schema_verdict = "SchemaError"
  /\ ExitedNonZero
  /\ Len(canonical_lines) = 2
  /\ Len(output_f) = 1

DataFailures ==
  {"MalformedInput", "MissingRequiredField", "MissingEnrichment",
   "NoEnrichmentData", "ValidationFailure"}

\* C10: the run ends with the success code on completion, with one non-zero
\* code on a data or validation error and with another non-zero code on an
\* unhandled failure, which is never reported with the code of data errors.
C10_ThreeExitCodes ==
  pc = "exited" =>
    /\ failure = None <=> exit_code = 0
    /\ failure \in DataFailures => exit_code = 1
    /\ failure = "Unhandled" => exit_code \notin {0, 1}

(***************************************************************************)
(* Content items without an identifier (SpecIssue).                        *)
(***************************************************************************)
\* The content item has no identifier: its metadata is missing or empty, or
\* has no id key.
LacksId(ci) == "id" \notin DOMAIN GetOr(ci, "m", EmptyDict)
SomeInputItemLacksId == \E k \in 1..Len(InputItems) : LacksId(InputItems[k])

\* C11: every content item whose metadata has no identifier, its metadata
\* being empty or missing included, makes process_issue fail (with
\* MissingRequiredField under the flexible policy), so no such item is passed
\* through to the output.
C11_ItemWithoutIdFails ==
  (pc = "issue_done" /\ SomeInputItemLacksId) =>
    /\ issue_result.exit # 0
    /\ matching_policy = "flexible" => issue_result.error = "MissingRequiredField"

(***************************************************************************)
(* The renaming of the legacy language keys (SpecItem).                    *)
(***************************************************************************)
\* consolidate_content_item applied to the metadata the first call returned.
SecondCall ==
  consolidate_content_item(ci_result.m, enrichments, langident_run_id,
                           matching_policy)
LanguageKeys == {"lg", "l", "lg_original"}
Renamed ==
  LET in == ci_metadata
      out == ci_result.m
  IN  /\ "lg" \notin DOMAIN out
      /\ "lg" \in DOMAIN in =>
           /\ out["lg_original"] = in["lg"]
           /\ "l" \in DOMAIN in => ("l" \in DOMAIN out /\ out["l"] = in["l"])
      /\ ("lg" \notin DOMAIN in /\ "l" \in DOMAIN in) =>
           /\ out["lg_original"] = in["l"]
           /\ "l" \notin DOMAIN out
      /\ ("lg" \notin DOMAIN in /\ "l" \notin DOMAIN in) =>
           /\ DOMAIN out \cap LanguageKeys = DOMAIN in \cap LanguageKeys
           /\ \A k \in DOMAIN in \cap LanguageKeys : out[k] = in[k]
SecondCallChangesNothing == SecondCall.exit = 0 /\ SecondCall.m = ci_result.m

\* C12 as stated: a call that returns moved lg to lg_original, or else l to
\* lg_original, never both; metadata with neither key is left unrenamed; no
\* lg key remains; and a second call on the metadata the first returned
\* changes nothing.
C12_RenameIdempotent ==
  (pc = "item_done" /\ ci_result.exit = 0) =>
    (Renamed /\ SecondCallChangesNothing)

\* C12 amended: the same, the second call changing nothing unless the input
\* had both lg and l (the first call then leaves l, which the second call
\* moves over lg_original).
C12_RenameIdempotentButBoth ==
  (pc = "item_done" /\ ci_result.exit = 0) =>
    /\ Renamed
    /\ ~("lg" \in DOMAIN ci_metadata /\ "l" \in DOMAIN ci_metadata)
         => SecondCallChangesNothing

\* An item with both keys: lg was moved, l stayed, and a second call moves l.
C12_Witness ==
  /\ pc = "item_done"
  /\ ci_result.exit = 0
  /\ Get(ci_metadata, "lg") = "en"
  /\ Get(ci_metadata, "l") = "de"
  /\ ci_result.m["lg_original"] = "en"
  /\ ci_result.m["l"] = "de"
  /\ SecondCall.m["lg_original"] = "de"

(***************************************************************************)
(* The enrichment index (SpecLoad).                                        *)
(***************************************************************************)
LinesRead == SubSeq(enrichment_input, 1, loaded)
\* A well-formed enrichment line: a JSON object with a non-empty id.
IsWellFormed(line) == line.kind = "json" /\ Truthy(Get(line.data, "id"))
AllWellFormed == \A k \in 1..loaded : IsWellFormed(LinesRead[k])
LinesOf(ci_id) == {k \in 1..loaded : LinesRead[k].data["id"] = ci_id}
LastLineOf(ci_id) == CHOOSE k \in LinesOf(ci_id) : \A j \in LinesOf(ci_id) : j <= k
IdsRead == {LinesRead[k].data["id"] : k \in 1..loaded}

\* C13: after any sequence of well-formed enrichment lines the index maps
\* each identifier to the record of the last line that carries it, no error
\* was raised, and the index has one entry per distinct identifier.
C13_LastWriteWins ==
  AllWellFormed =>
    /\ pc # "exited"
    /\ failure = None
    /\ DOMAIN enrichments = IdsRead
    /\ Cardinality(DOMAIN enrichments) = Cardinality(IdsRead)
    /\ \A ci_id \in IdsRead :
         LET data == LinesRead[LastLineOf(ci_id)].data
         IN  /\ enrichments[ci_id].lg = Get(data, "lg")
             /\ enrichments[ci_id].ocrqa = Get(data, "ocrqa")
             /\ enrichments[ci_id].len = Get(data, "len")

\* Two lines of ci-1 were loaded: the index holds the record of the second.
C13_Witness ==
  /\ pc = "load_done"
  /\ loaded >= 2
  /\ AllWellFormed
  /\ LinesRead[1].data = EnrichA
  /\ LinesRead[loaded].data = EnrichB
  /\ enrichments["ci-1"].lg = "de"
  /\ Cardinality(DOMAIN enrichments) < loaded

====
